---- MODULE Spec2Model ----
(***************************************************************************)
(* Model of src/src/tokenReplacement.js: the dotted-key replacement engine *)
(* (splitKey, getNextStepKey, stringToArray, replaceValue, parseValue,     *)
(* replaceObjectValue, transformObject).                                   *)
(*                                                                         *)
(* A JavaScript string is a sequence of one-character strings.  A JSON     *)
(* value is a record [t, v]: t is the type tag and v the payload.          *)
(***************************************************************************)
EXTENDS Integers, Sequences, FiniteSets, TLC

(***************************************************************************)
(* Bounds of the model.                                                    *)
(***************************************************************************)
MaxKeyLen == 3
MaxRawLen == 2
MaxReplacements == 2

(***************************************************************************)
(* Characters.                                                             *)
(***************************************************************************)
BSL == "\\"
DOT == "."
NL == "\n"
Digits == {"0", "1", "2", "3", "4", "5", "6", "7", "8", "9"}
\* the characters String.prototype.trim removes, within the alphabets used
WhiteSpace == {" ", "\t", NL}
\* the characters the regular expression atom . does not match
LineTerminators == {NL, "\r"}
\* the separators of /(\\[,;\n]|[^,;\n])+/g
Separators == {",", ";", NL}

SeqsUpTo(S, n) == UNION {[1..m -> S] : m \in 0..n}

(***************************************************************************)
(* JSON values, plus the two JavaScript values a property read can yield   *)
(* that are not JSON: undefined and a function (an inherited method).      *)
(***************************************************************************)
Null == [t |-> "null", v |-> <<>>]
Bool(b) == [t |-> "bool", v |-> b]
Num(n) == [t |-> "num", v |-> n]
Str(s) == [t |-> "str", v |-> s]
Arr(a) == [t |-> "arr", v |-> a]
Obj(f) == [t |-> "obj", v |-> f]
Undefined == [t |-> "undefined", v |-> <<>>]
Function == [t |-> "function", v |-> <<>>]

\* typeof x === 'object' (null included)
TypeofObject(x) == x.t \in {"obj", "arr", "null"}

(***************************************************************************)
(* Number <-> string conversions.                                          *)
(***************************************************************************)
DigitVal(c) ==
  CASE c = "0" -> 0 [] c = "1" -> 1 [] c = "2" -> 2 [] c = "3" -> 3
    [] c = "4" -> 4 [] c = "5" -> 5 [] c = "6" -> 6 [] c = "7" -> 7
    [] c = "8" -> 8 [] c = "9" -> 9

DigitChar(d) ==
  CASE d = 0 -> "0" [] d = 1 -> "1" [] d = 2 -> "2" [] d = 3 -> "3"
    [] d = 4 -> "4" [] d = 5 -> "5" [] d = 6 -> "6" [] d = 7 -> "7"
    [] d = 8 -> "8" [] d = 9 -> "9"

RECURSIVE DigitsValue(_)
\* the value of a non-empty string of decimal digits
DigitsValue(s) ==
  IF Len(s) = 0 THEN 0
  ELSE 10 * DigitsValue(SubSeq(s, 1, Len(s) - 1)) + DigitVal(s[Len(s)])

RECURSIVE NumberToString(_)
\* Number.prototype.toString of a non-negative integer
NumberToString(n) ==
  IF n < 10 THEN <<DigitChar(n)>>
  ELSE Append(NumberToString(n \div 10), DigitChar(n % 10))

NaNText == <<"N", "a", "N">>

RECURSIVE TrimStart(_)
TrimStart(s) ==
  IF Len(s) > 0 /\ s[1] \in WhiteSpace THEN TrimStart(Tail(s)) ELSE s

RECURSIVE TrimEnd(_)
TrimEnd(s) ==
  IF Len(s) > 0 /\ s[Len(s)] \in WhiteSpace
  THEN TrimEnd(SubSeq(s, 1, Len(s) - 1)) ELSE s

\* String.prototype.trim
Trim(s) == TrimEnd(TrimStart(s))

AllDigits(s) == \A i \in 1..Len(s) : s[i] \in Digits

RECURSIVE DigitPrefix(_)
\* the longest prefix of s made of decimal digits
DigitPrefix(s) ==
  IF Len(s) > 0 /\ s[1] \in Digits
  THEN <<s[1]>> \o DigitPrefix(Tail(s)) ELSE <<>>

\* isNaN(Number(s)) for s over digits, '.', white space and characters that
\* start no numeric literal: Number trims, reads "" as 0 and otherwise wants
\* a whole decimal literal (digits, or digits with one '.')
NumberIsNaN(s) ==
  LET t == Trim(s)
      dots == {i \in 1..Len(t) : t[i] = DOT}
  IN  ~ (\/ t = <<>>
         \/ /\ \A i \in 1..Len(t) : t[i] \in Digits \cup {DOT}
            /\ Cardinality(dots) <= 1
            /\ \E i \in 1..Len(t) : t[i] \in Digits)

\* Number(s) where s is a string of digits (the only case its value is used)
NumberOf(s) == DigitsValue(Trim(s))

\* parseInt(s).toString(): parseInt skips leading white space and reads the
\* longest digit prefix; with none it is NaN
ParseIntToString(s) ==
  LET p == DigitPrefix(TrimStart(s))
  IN  IF p = <<>> THEN NaNText ELSE NumberToString(DigitsValue(p))

\* parseFloat(s).toString() for s without '.', sign or exponent: the same
\* digit prefix as parseInt
ParseFloatToString(s) == ParseIntToString(s)

(***************************************************************************)
(* splitKey, line 8: key.match(/(\\.|[^.])+/g) || []                       *)
(* Left to right: a backslash with a following character other than a line *)
(* terminator is a two-character unit; any other character that is not '.' *)
(* is a one-character unit; an unescaped '.' ends the current run.  Runs of *)
(* zero units are no match.                                                *)
(***************************************************************************)
RECURSIVE SplitFrom(_, _, _, _)
SplitFrom(s, i, cur, acc) ==
  IF i > Len(s) THEN (IF cur = <<>> THEN acc ELSE Append(acc, cur))
  ELSE IF s[i] = BSL /\ i < Len(s) /\ s[i + 1] \notin LineTerminators
       THEN SplitFrom(s, i + 2, cur \o <<s[i], s[i + 1]>>, acc)
  ELSE IF s[i] # DOT
       THEN SplitFrom(s, i + 1, Append(cur, s[i]), acc)
  ELSE SplitFrom(s, i + 1, <<>>, IF cur = <<>> THEN acc ELSE Append(acc, cur))

\* splitKey with the dot not excluded, /(\\.|.)+/g: the whole key is one part
splitKeyNoDot(key) == IF key = <<>> THEN <<>> ELSE <<key>>

splitKey(key) == SplitFrom(key, 1, <<>>, <<>>)

RECURSIVE Join(_, _)
\* Array.prototype.join
Join(parts, sep) ==
  IF Len(parts) = 0 THEN <<>>
  ELSE IF Len(parts) = 1 THEN parts[1]
  ELSE parts[1] \o <<sep>> \o Join(Tail(parts), sep)

\* getNextStepKey, line 15
getNextStepKey(key) == Join(Tail(splitKey(key)), DOT)

RECURSIVE ReplaceEscapes(_)
\* segment.replace(/\\./g, '.'), line 39: every backslash together with the
\* character after it (any character but a line terminator) becomes one '.'
ReplaceEscapes(s) ==
  IF Len(s) = 0 THEN <<>>
  ELSE IF s[1] = BSL /\ Len(s) > 1 /\ s[2] \notin LineTerminators
       THEN <<DOT>> \o ReplaceEscapes(SubSeq(s, 3, Len(s)))
  ELSE <<s[1]>> \o ReplaceEscapes(Tail(s))

\* line 39: splitKey(key)[0]?.replace(/\\./g, '.') || ''
CurrentKey(key) ==
  LET parts == splitKey(key)
  IN  IF parts = <<>> THEN <<>> ELSE ReplaceEscapes(parts[1])

(***************************************************************************)
(* stringToArray, lines 23-29.                                             *)
(***************************************************************************)
RECURSIVE MatchItems(_, _, _, _)
\* str.match(/(\\[,;\n]|[^,;\n])+/g) || []
MatchItems(s, i, cur, acc) ==
  IF i > Len(s) THEN (IF cur = <<>> THEN acc ELSE Append(acc, cur))
  ELSE IF s[i] = BSL /\ i < Len(s) /\ s[i + 1] \in Separators
       THEN MatchItems(s, i + 2, cur \o <<s[i], s[i + 1]>>, acc)
  ELSE IF s[i] \notin Separators
       THEN MatchItems(s, i + 1, Append(cur, s[i]), acc)
  ELSE MatchItems(s, i + 1, <<>>, IF cur = <<>> THEN acc ELSE Append(acc, cur))

\* !x for the values parseValue can return
Falsy(x) ==
  \/ x.t = "null"
  \/ x.t = "bool" /\ x.v = FALSE
  \/ x.t = "num" /\ x.v = 0
  \/ x.t = "str" /\ x.v = <<>>

\* whether stringToArray(str) ends in a TypeError: a truthy value that is no
\* string has no match method
stringToArrayThrows(str) == ~Falsy(str) /\ str.t # "str"

\* the array stringToArray(str) returns when it does not throw
stringToArray(str) ==
  IF Falsy(str) THEN Arr(<<>>)
  ELSE LET items == MatchItems(str.v, 1, <<>>, <<>>)
       IN  Arr([i \in 1..Len(items) |-> Str(Trim(items[i]))])

(***************************************************************************)
(* parseValue, lines 85-100.                                               *)
(***************************************************************************)
TrueText == <<"t", "r", "u", "e">>
FalseText == <<"f", "a", "l", "s", "e">>
NullText == <<"n", "u", "l", "l">>

parseValue(value) ==
  IF value = <<>> THEN Null
  ELSE IF value = TrueText THEN Bool(TRUE)
  ELSE IF value = FalseText THEN Bool(FALSE)
  ELSE IF /\ ~NumberIsNaN(value)
          /\ \/ ParseIntToString(value) = value
             \/ ParseFloatToString(value) = value
       THEN Num(NumberOf(value))
  ELSE Str(value)

\* String(value) for the values parseValue can return
StringOf(value) ==
  CASE value.t = "null" -> NullText
    [] value.t = "bool" -> (IF value.v THEN TrueText ELSE FalseText)
    [] value.t = "num" -> NumberToString(value.v)
    [] value.t = "str" -> value.v

(***************************************************************************)
(* Property reads, obj[currentKey] (lines 46, 59, 62, 66, 71, 74).         *)
(* A read finds own properties and inherited ones.  Every value but null   *)
(* and undefined inherits the methods of Object.prototype; valueOf stands  *)
(* for them.  Reading a property of null is a TypeError (see replaceValue).*)
(***************************************************************************)
ValueOfKey == <<"v", "a", "l", "u", "e", "O", "f">>
LengthKey == <<"l", "e", "n", "g", "t", "h">>
InheritedKeys == {ValueOfKey}

\* a canonical array index: the decimal text of a non-negative integer
IsArrayIndex(k) ==
  /\ Len(k) > 0
  /\ AllDigits(k)
  /\ (Len(k) = 1 \/ k[1] # "0")

Get(obj, k) ==
  CASE obj.t = "obj" ->
         IF k \in DOMAIN obj.v THEN obj.v[k]
         ELSE IF k \in InheritedKeys THEN Function ELSE Undefined
    [] obj.t = "arr" ->
         IF IsArrayIndex(k) /\ DigitsValue(k) < Len(obj.v)
         THEN obj.v[DigitsValue(k) + 1]
         ELSE IF k = LengthKey THEN Num(Len(obj.v))
         ELSE IF k \in InheritedKeys THEN Function ELSE Undefined
    [] obj.t = "str" ->
         IF IsArrayIndex(k) /\ DigitsValue(k) < Len(obj.v)
         THEN Str(<<obj.v[DigitsValue(k) + 1]>>)
         ELSE IF k = LengthKey THEN Num(Len(obj.v))
         ELSE IF k \in InheritedKeys THEN Function ELSE Undefined
    [] obj.t \in {"num", "bool"} ->
         IF k \in InheritedKeys THEN Function ELSE Undefined

(***************************************************************************)
(* Property writes.  The file is a CommonJS module without "use strict":   *)
(* an assignment to a property of a primitive (string, number, boolean)    *)
(* is silently dropped.  An assignment to an object property named by an   *)
(* inherited key creates an own property.                                  *)
(***************************************************************************)
SetProp(obj, k, val) ==
  IF obj.t = "obj" THEN Obj((k :> val) @@ obj.v) ELSE obj

\* obj[index] = value on an array, index in range
SetIndex(obj, index, val) == Arr([obj.v EXCEPT ![index + 1] = val])

\* line 74 without the conversion: the value is stored as it is
StoredValueAsIs(cur, value) == value

\* line 74 with the conversion applied to every scalar target
StoredValueScalarsToString(cur, value) ==
  IF cur.t \in {"str", "num", "bool"} THEN Str(StringOf(value)) ELSE value

\* line 74: typeof obj[currentKey] === 'string' ? String(value) : value
StoredValue(cur, value) ==
  IF cur.t = "str" THEN Str(StringOf(value)) ELSE value

(***************************************************************************)
(* replaceValue, lines 38-78.  The result is the node after the call, the  *)
(* value returned, whether the call ended in a TypeError, and the          *)
(* assignment statement that ran: "index" (line 56), "array" (line 64),    *)
(* "prop" (line 74 on an object), "primitive" (line 74 on a primitive, an  *)
(* assignment without effect) or "none", with the value the location held  *)
(* (old) and the value assigned (new).                                     *)
(***************************************************************************)
Fail(obj) ==
  [obj |-> obj, ret |-> FALSE, threw |-> FALSE, via |-> "none",
   old |-> Undefined, new |-> Undefined]

Throw(obj) == [Fail(obj) EXCEPT !.threw = TRUE]

Done(obj, via, old, new) ==
  [obj |-> obj, ret |-> TRUE, threw |-> FALSE, via |-> via,
   old |-> old, new |-> new]

RECURSIVE replaceValue(_, _, _)
replaceValue(obj, key, value) ==
  LET currentKey == CurrentKey(key)
      nextKey == getNextStepKey(key)
      isLastKey == nextKey = <<>>
  IN
  IF currentKey = <<>> THEN Fail(obj)                        \* lines 42-44
  ELSE IF obj.t = "null" THEN Throw(obj)                     \* line 46
  ELSE
  LET cur == Get(obj, currentKey) IN
  IF cur.t = "undefined" THEN Fail(obj)                      \* lines 46-48
  ELSE IF obj.t = "arr" /\ ~NumberIsNaN(currentKey) THEN     \* lines 51-54
    LET index == NumberOf(currentKey) IN
    IF isLastKey
    THEN Done(SetIndex(obj, index, value), "index", cur, value)
    ELSE LET sub == replaceValue(cur, nextKey, value)        \* line 59
         IN  [sub EXCEPT !.obj = SetIndex(obj, index, sub.obj)]
  ELSE IF obj.t # "arr" /\ cur.t = "arr" /\ isLastKey THEN   \* lines 62-65
    IF stringToArrayThrows(value) THEN Throw(obj)
    ELSE Done(SetProp(obj, currentKey, stringToArray(value)), "array",
              cur, stringToArray(value))
  ELSE IF obj.t # "arr" /\ cur.t \in {"obj", "arr"} /\ ~isLastKey THEN
    LET sub == replaceValue(cur, nextKey, value)             \* lines 66-68
    IN  [sub EXCEPT !.obj = SetProp(obj, currentKey, sub.obj)]
  ELSE IF (~TypeofObject(cur) \/ cur.t = "null") /\ obj.t # "arr" THEN
    Done(SetProp(obj, currentKey, StoredValue(cur, value)),  \* lines 71-76
         IF obj.t = "obj" THEN "prop" ELSE "primitive",
         cur, StoredValue(cur, value))
  ELSE Fail(obj)                                             \* line 77

\* replaceObjectValue, lines 109-112
replaceObjectValue(obj, key, value) == replaceValue(obj, key, parseValue(value))

(***************************************************************************)
(* Inputs.  The first replacement of a behaviour ranges over every key and *)
(* every raw string within the bounds (plus a few longer ones); a later    *)
(* replacement repeats the previous entry or takes one from a chosen set.  *)
(***************************************************************************)
A == <<"a">>
Zero == <<"0">>
DotKey == <<".">>
SpaceKey == <<" ">>
HiText == <<"h", "i">>

KeyChars == {"a", DOT, BSL}
RawChars == {",", " "}

ExtraKeys ==
  {Zero, SpaceKey, ValueOfKey,
   <<"a", ".", "0">>, <<"0", ".", "a">>, <<"0", ".", "0">>,
   <<"a", ".", "0", ".", "a">>, <<"0", ".", "0", ".", "0">>}
ExtraRaws ==
  {<<"x">>, <<"4">>, TrueText, FalseText, <<"x", ",", " ", ",", "x">>}

Keys == SeqsUpTo(KeyChars, MaxKeyLen) \cup ExtraKeys
Raws == SeqsUpTo(RawChars, MaxRawLen) \cup ExtraRaws

LaterEntries ==
  {<<A, <<>>>>, <<Zero, <<"4">>>>, <<<<"0", ".", "0">>, <<"x">>>>,
   <<ValueOfKey, <<"x">>>>}

\* the documents the engine starts from
InitialTrees ==
  { Obj(A :> Num(1) @@ Zero :> Arr(<<>>) @@ DotKey :> Str(HiText)
        @@ SpaceKey :> Bool(TRUE)),
    Obj(A :> Arr(<<Null>>) @@ Zero :> Arr(<<Str(HiText)>>)),
    Obj(A :> Obj(A :> Str(HiText) @@ Zero :> Null) @@ Zero :> Str(<<>>)),
    Arr(<<Obj(A :> Num(1)), Null>>) }

(***************************************************************************)
(* State.                                                                  *)
(***************************************************************************)
VARIABLES
  tree,          \* the document, mutated in place
  pc,            \* "idle", "loop" (inside transformObject) or "thrown"
  replacedKeys,  \* line 121; once pc is "idle" again, the value returned
  seen,          \* the keys of replacements the loop has visited
  count,         \* replaceObjectValue calls so far
  last,          \* the most recent replaceObjectValue call
  prev           \* the one before it

vars == <<tree, pc, replacedKeys, seen, count, last, prev>>

NoCall ==
  [called |-> FALSE, key |-> <<>>, raw |-> <<>>, before |-> Null,
   ret |-> FALSE, threw |-> FALSE, via |-> "none",
   old |-> Undefined, new |-> Undefined]

Init ==
  /\ tree \in InitialTrees
  /\ pc = "idle"
  /\ replacedKeys = <<>>
  /\ seen = {}
  /\ count = 0
  /\ last = NoCall
  /\ prev = NoCall

\* transformObject is entered: line 121
TransformObjectBegin ==
  /\ pc = "idle"
  /\ count < MaxReplacements
  /\ pc' = "loop"
  /\ replacedKeys' = <<>>
  /\ seen' = {}
  /\ UNCHANGED <<tree, count, last, prev>>

\* one iteration of the loop, lines 122-127, on the entry key |-> raw; a
\* TypeError leaves transformObject (and the model stops there)
TransformObjectStep(key, raw) ==
  /\ pc = "loop"
  /\ key \notin seen
  /\ count < MaxReplacements
  /\ LET r == replaceObjectValue(tree, key, raw) IN
       /\ tree' = r.obj
       /\ pc' = IF r.threw THEN "thrown" ELSE "loop"
       /\ replacedKeys' = IF r.ret THEN Append(replacedKeys, key)
                          ELSE replacedKeys
       /\ last' = [called |-> TRUE, key |-> key, raw |-> raw,
                   before |-> tree, ret |-> r.ret, threw |-> r.threw,
                   via |-> r.via, old |-> r.old, new |-> r.new]
  /\ seen' = seen \cup {key}
  /\ count' = count + 1
  /\ prev' = last

\* the loop is over: line 128
TransformObjectReturn ==
  /\ pc = "loop"
  /\ pc' = "idle"
  /\ UNCHANGED <<tree, replacedKeys, seen, count, last, prev>>

Next ==
  \/ TransformObjectBegin
  \/ \E key \in Keys, raw \in Raws :
       count = 0 /\ TransformObjectStep(key, raw)
  \/ \E e \in LaterEntries :
       count > 0 /\ TransformObjectStep(e[1], e[2])
  \/ count > 0 /\ TransformObjectStep(last.key, last.raw)
  \/ TransformObjectReturn

Spec == Init /\ [][Next]_vars

(***************************************************************************)
(* Vocabulary of the properties.                                           *)
(***************************************************************************)
Scalar(x) == x.t \in {"str", "num", "bool", "null"}

\* the last call wrote into the document
Wrote == last.via \in {"index", "array", "prop"}

\* the last call was given a key of one segment that names an own property
\* of the root object
RootProperty ==
  /\ last.called
  /\ last.before.t = "obj"
  /\ Len(splitKey(last.key)) = 1
  /\ CurrentKey(last.key) \in DOMAIN last.before.v

\* a key made of unescaped dots only (the empty key included)
OnlyDots(key) == \A i \in 1..Len(key) : key[i] = DOT

\* a key made of white space only (the empty key included)
OnlySpace(key) == \A i \in 1..Len(key) : key[i] \in WhiteSpace

RECURSIVE UnescapeDots(_)
\* a segment with every backslash-dot pair replaced by a dot and every
\* other character kept
UnescapeDots(s) ==
  IF Len(s) = 0 THEN <<>>
  ELSE IF s[1] = BSL /\ Len(s) > 1 /\ s[2] = DOT
       THEN <<DOT>> \o UnescapeDots(SubSeq(s, 3, Len(s)))
  ELSE <<s[1]>> \o UnescapeDots(Tail(s))

RECURSIVE KeysPreserved(_, _)
\* a (after) has no object key b (before) lacked, wherever the two still
\* have the same shape
KeysPreserved(b, a) ==
  IF b.t = "obj" /\ a.t = "obj"
  THEN /\ DOMAIN a.v \subseteq DOMAIN b.v
       /\ \A k \in DOMAIN a.v : KeysPreserved(b.v[k], a.v[k])
  ELSE IF b.t = "arr" /\ a.t = "arr" /\ Len(b.v) = Len(a.v)
  THEN \A i \in 1..Len(a.v) : KeysPreserved(b.v[i], a.v[i])
  ELSE TRUE

RECURSIVE StringPropertiesKept(_, _)
\* every object property that held a string in b holds a string in a
StringPropertiesKept(b, a) ==
  IF b.t = "obj" /\ a.t = "obj"
  THEN \A k \in DOMAIN b.v \cap DOMAIN a.v :
         /\ b.v[k].t = "str" => a.v[k].t = "str"
         /\ StringPropertiesKept(b.v[k], a.v[k])
  ELSE IF b.t = "arr" /\ a.t = "arr" /\ Len(b.v) = Len(a.v)
  THEN \A i \in 1..Len(a.v) : StringPropertiesKept(b.v[i], a.v[i])
  ELSE TRUE

(***************************************************************************)
(* C1: transformObject never throws: whatever the tree, the key and the    *)
(* raw string, a key is either applied or left out of the applied keys,    *)
(* and the loop goes on to the remaining keys.                             *)
(***************************************************************************)
C1_NeverThrows == pc # "thrown" /\ ~last.threw

(***************************************************************************)
(* C2: when a key is applied whose terminal segment names an object        *)
(* property holding an array, the property becomes the list split from the *)
(* raw string itself, whatever the Value Coercer makes of that string.     *)
(***************************************************************************)
C2_ArrayFromRawString ==
  (RootProperty /\ last.ret /\ last.before.v[CurrentKey(last.key)].t = "arr")
    => tree.v[CurrentKey(last.key)] = stringToArray(Str(last.raw))

(***************************************************************************)
(* C3: with a non-empty rest and a scalar or null at node[current] in an   *)
(* object node, replace returns false, the tree is unchanged and the key   *)
(* is not recorded.                                                        *)
(***************************************************************************)
C3_OverlongPathFails ==
  LET parts == splitKey(last.key) IN
  ( /\ last.called
    /\ last.before.t = "obj"
    /\ Len(parts) >= 2
    /\ CurrentKey(last.key) \in DOMAIN last.before.v
    /\ Scalar(last.before.v[CurrentKey(last.key)]) )
    => /\ ~last.ret
       /\ tree = last.before
       /\ \A i \in 1..Len(replacedKeys) : replacedKeys[i] # last.key

(***************************************************************************)
(* C4: replace returns true exactly when it assigned one location of the   *)
(* tree; when it returns false the tree is what it was and the key is not  *)
(* recorded.                                                               *)
(***************************************************************************)
C4_AllOrNothing ==
  last.called =>
    /\ last.ret <=> Wrote
    /\ ~last.ret =>
         /\ tree = last.before
         /\ \A i \in 1..Len(replacedKeys) : replacedKeys[i] # last.key

(***************************************************************************)
(* C5: no call makes an object gain a key it did not have.                 *)
(***************************************************************************)
C5_NoNewKeys == last.called => KeysPreserved(last.before, tree)

(***************************************************************************)
(* C6, as claimed: whenever a target holding a string is overwritten       *)
(* (object property or array element), String(value) is stored.            *)
(***************************************************************************)
C6_StringTargetsGetStrings ==
  (last.called /\ last.via \in {"index", "prop"} /\ last.old.t = "str")
    => last.new = Str(StringOf(parseValue(last.raw)))

(***************************************************************************)
(* C6, amended: whenever an object property holding a string is            *)
(* overwritten, String(value) is stored, and every string-typed object     *)
(* property is still string-typed after the call.                          *)
(***************************************************************************)
C6_StringPropertiesGetStrings ==
  last.called =>
    /\ (last.via = "prop" /\ last.old.t = "str")
         => last.new = Str(StringOf(parseValue(last.raw)))
    /\ StringPropertiesKept(last.before, tree)

C6_Witness ==
  /\ last.called
  /\ last.via = "prop"
  /\ last.old.t = "str"
  /\ parseValue(last.raw).t \in {"num", "bool", "null"}
  /\ tree # last.before

(***************************************************************************)
(* C7: a replacement that succeeded, applied again with the same key and   *)
(* the same value, succeeds again and leaves the tree as the first         *)
(* application left it.                                                    *)
(***************************************************************************)
C7_Idempotent ==
  ( /\ prev.called /\ prev.ret
    /\ last.called /\ last.key = prev.key /\ last.raw = prev.raw )
    => /\ last.ret
       /\ ~last.threw
       /\ tree = last.before

C7_Witness ==
  /\ prev.called /\ prev.ret
  /\ last.called /\ last.key = prev.key /\ last.raw = prev.raw
  /\ prev.old.t # prev.new.t
  /\ Wrote

(***************************************************************************)
(* C8, as claimed: a key that is empty, made of unescaped dots only or     *)
(* made of white space only never matches: replace returns false and the   *)
(* tree is unchanged.                                                      *)
(***************************************************************************)
C8_BlankKeysNeverMatch ==
  (last.called /\ (OnlyDots(last.key) \/ OnlySpace(last.key)))
    => (~last.ret /\ tree = last.before)

(***************************************************************************)
(* C8, amended: a key that is empty or made of unescaped dots only never   *)
(* matches (false, tree unchanged, key not recorded), and splitKey never   *)
(* yields an empty segment.                                                *)
(***************************************************************************)
C8_DotKeysNeverMatch ==
  last.called =>
    /\ OnlyDots(last.key) =>
         /\ splitKey(last.key) = <<>>
         /\ ~last.ret /\ ~last.threw
         /\ tree = last.before
         /\ \A i \in 1..Len(replacedKeys) : replacedKeys[i] # last.key
    /\ \A i \in 1..Len(splitKey(last.key)) : splitKey(last.key)[i] # <<>>

C8_Witness ==
  /\ last.called
  /\ Len(last.key) >= 2
  /\ OnlyDots(last.key)
  /\ DotKey \in DOMAIN last.before.v

(***************************************************************************)
(* C9: a key of one segment addresses the object property named by the     *)
(* segment with its backslash-dot pairs turned into dots and every other   *)
(* character kept: no other property of the object changes.                *)
(***************************************************************************)
C9_UnescapeOnlyDots ==
  ( /\ last.called /\ last.ret
    /\ last.before.t = "obj"
    /\ Len(splitKey(last.key)) = 1 )
    => \A k \in (DOMAIN tree.v \cup DOMAIN last.before.v)
                  \ {UnescapeDots(splitKey(last.key)[1])} :
         /\ k \in DOMAIN tree.v /\ k \in DOMAIN last.before.v
         /\ tree.v[k] = last.before.v[k]

(***************************************************************************)
(* C10: every item of the array a whole-array replacement stores is a      *)
(* non-empty string without leading or trailing white space.               *)
(***************************************************************************)
C10_NoEmptyItems ==
  (RootProperty /\ last.ret /\ last.before.v[CurrentKey(last.key)].t = "arr")
    => \A i \in 1..Len(tree.v[CurrentKey(last.key)].v) :
         LET item == tree.v[CurrentKey(last.key)].v[i] IN
           /\ item.t = "str"
           /\ item.v # <<>>
           /\ Trim(item.v) = item.v

====
